---- MODULE Spec2Model ----
(***************************************************************************)
(* A model of the containers of rust-ds-algo: the B-tree DeviceDatabase    *)
(* (ch05/src/btree.rs), the binary heap MessageChecker (ch05/src/heap.rs), *)
(* the graph InternetOfThings (ch05/src/graph.rs), the trie                *)
(* BestDeviceRegistry (ch05/src/trie.rs), the list TransactionLog          *)
(* (ch04/src/singly_linked_list.rs) and the binary search tree             *)
(* DeviceRegistry (ch05/src/binary_search_tree.rs).                        *)
(*                                                                         *)
(* Conventions.  Option<T> is a sequence of length 0 (None) or 1 (Some).   *)
(* Vec<T> is a sequence; Rust's 0-based index i is the model's i + 1.  A   *)
(* Rust panic (unwrap of None, index out of range) is an outcome of the    *)
(* operator that models the function: a record field panic = TRUE.         *)
(***************************************************************************)
EXTENDS Integers, Sequences, FiniteSets, TLC

\* DeviceDatabase (btree.rs) and its history variables.
VARIABLES root, order, length, added, splits, panicked
\* MessageChecker (heap.rs): heap and length are its fields; pop_result is
\* what the last pop returned, heap_op the operation that ran last.
VARIABLES heap, heap_length, pop_result, heap_op
\* InternetOfThings (graph.rs): nodes and adjacency_list are its fields.
VARIABLES nodes, adjacency_list
\* BestDeviceRegistry (trie.rs): trie_root and trie_length are its fields;
\* trie_added is the history of the devices handed to add.
VARIABLES trie_root, trie_length, trie_added
\* TransactionLog (singly_linked_list.rs): log_head, log_tail and log_length
\* are its fields, log_cells the Rc<RefCell<Node>> cells alive.  History:
\* log_appended the values appended, log_popped the values pop returned,
\* log_result what the last pop returned, log_op the operation that ran
\* last, log_panicked whether a pop panicked.
VARIABLES log_cells, log_head, log_tail, log_length,
          log_appended, log_popped, log_result, log_op, log_panicked
\* DeviceRegistry (binary_search_tree.rs): bst_root and bst_length are its
\* fields; bst_added is the set of the devices handed to add.
VARIABLES bst_root, bst_length, bst_added
\* Node::split on its own: split_node is the node it is called on and
\* split_returned what the call left, None before the call.
VARIABLES split_node, split_returned
\* The read-only operations of DeviceDatabase as calls: query_op is the
\* operation called last, query_key the key of the last find, query_result
\* what the last read returned, reads_seen whether a read ran before the
\* last add.  shadow_root and shadow_length are the fields of a second
\* DeviceDatabase that gets the same adds and is never read.
VARIABLES query_op, query_key, query_result, reads_seen, shadow_root,
          shadow_length

bt_vars == <<root, order, length, added, splits, panicked>>
heap_vars == <<heap, heap_length, pop_result, heap_op>>
graph_vars == <<nodes, adjacency_list>>
trie_vars == <<trie_root, trie_length, trie_added>>
log_vars == <<log_cells, log_head, log_tail, log_length,
              log_appended, log_popped, log_result, log_op, log_panicked>>
bst_vars == <<bst_root, bst_length, bst_added>>
split_vars == <<split_node, split_returned>>
read_vars == <<query_op, query_key, query_result, reads_seen, shadow_root,
               shadow_length>>
vars == <<bt_vars, heap_vars, graph_vars, trie_vars, log_vars, bst_vars,
          split_vars, read_vars>>

\* What the operations of one container leave alone.
but_read == <<heap_vars, graph_vars, trie_vars, log_vars, bst_vars, split_vars>>
but_bt == <<heap_vars, graph_vars, trie_vars, log_vars, bst_vars, split_vars,
  read_vars>>
but_heap == <<bt_vars, graph_vars, trie_vars, log_vars, bst_vars, split_vars,
  read_vars>>
but_graph == <<bt_vars, heap_vars, trie_vars, log_vars, bst_vars, split_vars,
  read_vars>>
but_trie == <<bt_vars, heap_vars, graph_vars, log_vars, bst_vars, split_vars,
  read_vars>>
but_log == <<bt_vars, heap_vars, graph_vars, trie_vars, bst_vars, split_vars,
  read_vars>>
but_bst == <<bt_vars, heap_vars, graph_vars, trie_vars, log_vars, split_vars,
  read_vars>>
but_split == <<bt_vars, heap_vars, graph_vars, trie_vars, log_vars, bst_vars,
  read_vars>>

(***************************************************************************)
(* Bounds of the model.                                                    *)
(***************************************************************************)
MaxOrder == 4
MaxKey == 10
MaxAdds == 10
DupMaxKey == 4
DupMaxAdds == 8
MaxHeap == 4
MaxMessages == 3
MaxDeviceId == 2
MaxNodes == 3
MaxWeight == 1
MaxEdges == 3
MaxPathLen == 2
MaxTrieAdds == 3
MaxAppends == 4
MaxBstKey == 5
MaxSlots == 5
ReadMaxAdds == 5

Orders == 3..MaxOrder
Keys == 0..(MaxKey - 1)
DupKeys == 0..(DupMaxKey - 1)

(***************************************************************************)
(* Option<T>                                                               *)
(***************************************************************************)
None == <<>>
Some(x) == <<x>>
is_some(o) == Len(o) > 0
is_none(o) == Len(o) = 0
unwrap(o) == o[1]

(***************************************************************************)
(* Rust evaluates `let x = e;` once.  Value(e, Body) is Body applied to    *)
(* the value of e: e is evaluated once, however often Body uses it.        *)
(***************************************************************************)
Value(e, Body(_)) == CHOOSE r \in {Body(v) : v \in {e}} : TRUE

(***************************************************************************)
(* Vec<T>::remove(i) and Vec<T>::insert(i, x), with i the number of        *)
(* elements that stay in front.                                            *)
(***************************************************************************)
\* A slip: remove takes the last element, whatever the index.
vec_remove_last(v, i) == SubSeq(v, 1, Len(v) - 1)

vec_remove(v, i) == SubSeq(v, 1, i) \o SubSeq(v, i + 2, Len(v))
vec_insert(v, i, x) == SubSeq(v, 1, i) \o <<x>> \o SubSeq(v, i + 1, Len(v))

(***************************************************************************)
(* IoTDevice: equality is (numerical_id, address); path is never read by   *)
(* the containers and is left out.                                         *)
(***************************************************************************)
IoTDevice(id, address) == [numerical_id |-> id, address |-> address]

(***************************************************************************)
(* Node                                                                    *)
(***************************************************************************)
new(node_type) ==
  [left_child |-> None, devices |-> <<>>, children |-> <<>>, node_type |-> node_type]

new_leaf == new("Leaf")

\* A slip: new_regular makes a Leaf.
new_regular_as_leaf == new("Leaf")

new_regular == new("Regular")

len(node) == Len(node.children) + 1

\* A slip: the tree handed over is dropped.
add_left_child_dropped(node, tree) == node

add_left_child(node, tree) == [node EXCEPT !.left_child = tree]

\* A slip: the scan looks at no slot, so the direction is always Left.
fci_scan_none(devices, key, i, index) == index

\* Direction: 0 is Left, p >= 1 is Right(p - 1).
RECURSIVE fci_scan(_, _, _, _)
fci_scan(devices, key, i, index) ==
  IF i > Len(devices) THEN index
  ELSE IF is_none(devices[i]) THEN fci_scan(devices, key, i + 1, index)
  ELSE IF unwrap(devices[i]).numerical_id <= key
       THEN fci_scan(devices, key, i + 1, i)
       ELSE index

find_closest_index(node, key) == fci_scan(node.devices, key, 1, 0)

\* A slip: only the push branch reports success.
add_key_push_only(node, key, value) ==
  LET pos == find_closest_index(node, key)
      dev == value[1]
      tree == value[2]
  IN [ok |-> pos >= Len(node.devices),
      node |-> IF pos >= Len(node.devices)
               THEN [node EXCEPT !.devices = Append(@, dev),
                                 !.children = Append(@, tree)]
               ELSE [node EXCEPT !.devices = vec_insert(@, pos, dev),
                                 !.children = vec_insert(@, pos, tree)]]

\* A slip: a slot whose key is already there is overwritten.
add_key_replace(node, key, value) ==
  LET pos == find_closest_index(node, key)
      dev == value[1]
      tree == value[2]
  IN [ok |-> TRUE,
      node |-> IF pos >= 1 /\ is_some(node.devices[pos]) /\ is_some(dev)
                  /\ unwrap(node.devices[pos]).numerical_id = unwrap(dev).numerical_id
               THEN [node EXCEPT !.devices[pos] = dev, !.children[pos] = tree]
               ELSE IF pos >= Len(node.devices)
               THEN [node EXCEPT !.devices = Append(@, dev),
                                 !.children = Append(@, tree)]
               ELSE [node EXCEPT !.devices = vec_insert(@, pos, dev),
                                 !.children = vec_insert(@, pos, tree)]]

\* A slip: the tree handed over with the device is not stored.
add_key_tree_dropped(node, key, value) ==
  LET pos == find_closest_index(node, key)
      dev == value[1]
  IN [ok |-> TRUE,
      node |-> IF pos >= Len(node.devices)
               THEN [node EXCEPT !.devices = Append(@, dev),
                                 !.children = Append(@, None)]
               ELSE [node EXCEPT !.devices = vec_insert(@, pos, dev),
                                 !.children = vec_insert(@, pos, None)]]

\* add_key returns true on every path: ok is that return value.
add_key(node, key, value) ==
  LET pos == find_closest_index(node, key)
      dev == value[1]
      tree == value[2]
  IN [ok |-> TRUE,
      node |-> IF pos >= Len(node.devices)
               THEN [node EXCEPT !.devices = Append(@, dev),
                                 !.children = Append(@, tree)]
               ELSE [node EXCEPT !.devices = vec_insert(@, pos, dev),
                                 !.children = vec_insert(@, pos, tree)]]

\* A slip: the left child is taken out, whatever the key.
remove_key_left(node, id) ==
  [panic |-> FALSE, node |-> [node EXCEPT !.left_child = None],
   key |-> id, dev |-> None, tree |-> node.left_child]

\* remove_key: the node afterwards, and the (key, (dev, tree)) it returns.
remove_key(node, id) ==
  LET index == find_closest_index(node, id)
  IN IF index = 0
     THEN [panic |-> FALSE, node |-> [node EXCEPT !.left_child = None],
           key |-> id, dev |-> None, tree |-> node.left_child]
     ELSE LET dev == node.devices[index]
              tree == node.children[index]
              rest == [node EXCEPT !.devices = vec_remove(@, index - 1),
                                   !.children = vec_remove(@, index - 1)]
          IN IF is_none(dev)
             THEN [panic |-> TRUE, node |-> rest, key |-> id, dev |-> dev, tree |-> tree]
             ELSE [panic |-> FALSE, node |-> rest, key |-> unwrap(dev).numerical_id,
                   dev |-> dev, tree |-> tree]

\* A slip: the node is split at its first slot.
split_at_first(no_of_devices) == 0

split_at_of(no_of_devices) == no_of_devices \div 2

\* The loop of split: each round pops the last device and child and adds them
\* to the sibling.
RECURSIVE split_loop(_, _, _, _)
split_loop(devices, children, sibling, rounds) ==
  IF rounds <= 0 THEN [panic |-> FALSE, devices |-> devices, children |-> children,
                       sibling |-> sibling]
  ELSE IF Len(devices) = 0 \/ Len(children) = 0 \/ is_none(devices[Len(devices)])
       THEN [panic |-> TRUE, devices |-> devices, children |-> children,
             sibling |-> sibling]
       ELSE LET device == devices[Len(devices)]
                child == children[Len(children)]
            IN Value(add_key(sibling, unwrap(device).numerical_id,
                             <<device, child>>).node,
                     LAMBDA grown :
                       split_loop(SubSeq(devices, 1, Len(devices) - 1),
                                  SubSeq(children, 1, Len(children) - 1),
                                  grown, rounds - 1))

split(node) ==
  LET sibling == new(node.node_type)
      no_of_devices == Len(node.devices)
      split_at == split_at_of(no_of_devices)
      failed == [panic |-> TRUE, dev |-> IoTDevice(0, 0), sibling |-> sibling,
                 node |-> node]
  IN IF split_at >= Len(node.devices) \/ split_at >= Len(node.children)
     THEN failed
     ELSE LET dev == node.devices[split_at + 1]
              child == node.children[split_at + 1]
              devices == vec_remove(node.devices, split_at)
              children == vec_remove(node.children, split_at)
          IN Value(split_loop(devices, children, sibling, Len(devices) - split_at),
                   LAMBDA moved :
                     IF moved.panic \/ is_none(dev)
                     THEN failed
                     ELSE [panic |-> FALSE, dev |-> unwrap(dev),
                           sibling |-> add_left_child(moved.sibling, child),
                           node |-> [node EXCEPT !.devices = moved.devices,
                                                 !.children = moved.children]])

RECURSIVE get_device_scan(_, _, _)
get_device_scan(devices, key, i) ==
  IF i > Len(devices) THEN None
  ELSE IF is_some(devices[i]) /\ unwrap(devices[i]).numerical_id = key
       THEN devices[i]
       ELSE get_device_scan(devices, key, i + 1)

get_device(node, key) == get_device_scan(node.devices, key, 1)

\* A slip: the child in front of the closest slot is taken.
get_child_off_by_one(node, key) ==
  LET index == find_closest_index(node, key)
  IN IF index <= 1 THEN node.left_child ELSE node.children[index - 1]

get_child(node, key) ==
  LET index == find_closest_index(node, key)
  IN IF index = 0 THEN node.left_child ELSE node.children[index]

(***************************************************************************)
(* DeviceDatabase                                                          *)
(***************************************************************************)
\* A slip: a node may grow one slot beyond the order.
overflows_late(node, ord) == len(node) > ord + 1

overflows(node, ord) == len(node) > ord

RECURSIVE add_r(_, _, _, _)
RECURSIVE regular_arm(_, _, _)

\* The match arm of add_r for NodeType::Leaf.
leaf_arm(node, device) ==
  Value(add_key(node, device.numerical_id, <<Some(device), None>>),
        LAMBDA r : [panic |-> FALSE, node |-> r.node, promo |-> None,
                    inc |-> IF r.ok THEN 1 ELSE 0, splits |-> 0])

\* The match arm of add_r for NodeType::Regular.
regular_arm(node, device, ord) ==
  LET failed(inc) == [panic |-> TRUE, node |-> node, promo |-> None, inc |-> inc,
                      splits |-> 0]
      reattach(rk, child) ==
        Value(IF is_none(rk.dev)
              THEN add_left_child(rk.node, Some(child.node))
              ELSE add_key(rk.node, rk.key, <<rk.dev, Some(child.node)>>).node,
              LAMBDA node1 :
                IF is_none(child.promo)
                THEN [panic |-> FALSE, node |-> node1, promo |-> None,
                      inc |-> child.inc, splits |-> child.splits]
                ELSE LET split_result == unwrap(child.promo)
                     IN IF is_none(split_result[1])
                        THEN failed(child.inc)
                        ELSE [panic |-> FALSE,
                              node |-> add_key(node1,
                                         unwrap(split_result[1]).numerical_id,
                                         split_result).node,
                              promo |-> None, inc |-> child.inc,
                              splits |-> child.splits])
  IN Value(remove_key(node, device.numerical_id),
           LAMBDA rk :
             IF rk.panic \/ is_none(rk.tree)
             THEN failed(0)
             ELSE Value(add_r(unwrap(rk.tree), device, FALSE, ord),
                        LAMBDA child : IF child.panic THEN failed(child.inc)
                                       ELSE reattach(rk, child)))

\* add_r: the node and the Option<Data> it returns, inc = what it added to
\* self.length, splits = the calls of Node::split it made.
add_r(node, device, is_root, ord) ==
  LET failed(inc) == [panic |-> TRUE, node |-> node, promo |-> None, inc |-> inc,
                      splits |-> 0]
      grown(arm, s) ==
        IF s.panic
        THEN failed(arm.inc)
        ELSE IF is_root
        THEN [panic |-> FALSE,
              node |-> add_key(add_left_child(new_regular, Some(s.node)),
                               s.dev.numerical_id,
                               <<Some(s.dev), Some(s.sibling)>>).node,
              promo |-> None, inc |-> arm.inc, splits |-> arm.splits + 1]
        ELSE [panic |-> FALSE, node |-> s.node,
              promo |-> Some(<<Some(s.dev), Some(s.sibling)>>),
              inc |-> arm.inc, splits |-> arm.splits + 1]
  IN Value(IF node.node_type = "Leaf" THEN leaf_arm(node, device)
           ELSE regular_arm(node, device, ord),
           LAMBDA arm :
             IF arm.panic THEN arm
             ELSE IF overflows(arm.node, ord)
             THEN Value(split(arm.node), LAMBDA s : grown(arm, s))
             ELSE arm)

\* usize::max_value(): only ever the left operand of cmp::min with a level.
usize_max == 2147483647

min(a, b) == IF a <= b THEN a ELSE b
max(a, b) == IF a >= b THEN a ELSE b

min_children(level, ord) == IF level > 0 THEN ord \div 2 ELSE 2

RECURSIVE validate(_, _, _)
RECURSIVE validate_fold(_, _, _, _, _)
validate_fold(ns, i, total, level, ord) ==
  IF i > Len(ns) THEN total
  ELSE IF is_some(ns[i])
       THEN LET stats == validate(unwrap(ns[i]), level + 1, ord)
            IN validate_fold(ns, i + 1,
                             <<total[1] /\ stats[1], min(stats[2], total[2]),
                               max(stats[3], total[3])>>,
                             level, ord)
       ELSE validate_fold(ns, i + 1, total, level, ord)

validate(node, level, ord) ==
  IF node.node_type = "Leaf"
  THEN <<len(node) <= ord, level, level>>
  ELSE LET key_rules == len(node) <= ord /\ len(node) >= min_children(level, ord)
       IN validate_fold(node.children \o <<node.left_child>>, 1,
                        <<key_rules, usize_max, level>>, level, ord)

\* A slip: the empty tree counts as valid.
is_a_valid_btree_empty_ok(rt, ord) ==
  IF is_some(rt)
  THEN LET total == validate(unwrap(rt), 0, ord)
       IN total[1] /\ total[2] = total[3]
  ELSE TRUE

is_a_valid_btree(rt, ord) ==
  IF is_some(rt)
  THEN LET total == validate(unwrap(rt), 0, ord)
       IN total[1] /\ total[2] = total[3]
  ELSE FALSE

RECURSIVE find_r(_, _)
find_r(node, id) ==
  LET found == get_device(node, id)
  IN IF is_some(found) THEN found
     ELSE IF node.node_type # "Leaf"
     THEN LET tree == get_child(node, id)
          IN IF is_some(tree) THEN find_r(unwrap(tree), id) ELSE None
     ELSE None

find(rt, id) == IF is_some(rt) THEN find_r(unwrap(rt), id) ELSE None

\* walk_in_order: the sequence of devices handed to the callback.
RECURSIVE walk_in_order(_)
RECURSIVE walk_slots(_, _)
RECURSIVE walk_slots_child_first(_, _)
\* A slip: a slot's child is walked before the slot's device is emitted.
walk_slots_child_first(node, i) ==
  IF i > Len(node.devices) THEN <<>>
  ELSE (IF is_some(node.children[i]) THEN walk_in_order(unwrap(node.children[i]))
        ELSE <<>>)
       \o (IF is_some(node.devices[i]) THEN <<unwrap(node.devices[i])>> ELSE <<>>)
       \o walk_slots_child_first(node, i + 1)

walk_slots(node, i) ==
  IF i > Len(node.devices) THEN <<>>
  ELSE (IF is_some(node.devices[i]) THEN <<unwrap(node.devices[i])>> ELSE <<>>)
       \o (IF is_some(node.children[i]) THEN walk_in_order(unwrap(node.children[i]))
           ELSE <<>>)
       \o walk_slots(node, i + 1)

walk_in_order(node) ==
  (IF is_some(node.left_child) THEN walk_in_order(unwrap(node.left_child)) ELSE <<>>)
  \o walk_slots(node, 1)

walk(rt) == IF is_some(rt) THEN walk_in_order(unwrap(rt)) ELSE <<>>

(***************************************************************************)
(* The B-tree as a state machine.  root, order and length are the fields   *)
(* of DeviceDatabase.  added (the devices handed to add), splits (the      *)
(* calls of Node::split so far) and panicked (an add panicked: the         *)
(* program is gone) are history variables.                                 *)
(***************************************************************************)
KeyAdded(k) == \E d \in added : d.numerical_id = k

\* The device a caller adds under key k: its address tells the adds of one
\* key apart.
NewDevice(k) == IoTDevice(k, Cardinality({d \in added : d.numerical_id = k}))

new_empty(ord) ==
  /\ root = None
  /\ length = 0
  /\ order = ord

add(device) ==
  LET node == IF is_some(root) THEN unwrap(root) ELSE new_leaf
  IN /\ ~panicked
     /\ \E r \in {add_r(node, device, TRUE, order)} :
          /\ length' = length + r.inc
          /\ root' = IF r.panic THEN None ELSE Some(r.node)
          /\ panicked' = r.panic
          /\ splits' = splits + r.splits
     /\ added' = added \cup {device}
     /\ UNCHANGED order

InitBTree ==
  /\ \E ord \in Orders : new_empty(ord)
  /\ added = {}
  /\ splits = 0
  /\ panicked = FALSE

\* A caller that keeps the keys pairwise distinct.
AddFresh ==
  \E k \in Keys :
    /\ ~KeyAdded(k)
    /\ length < MaxAdds
    /\ add(NewDevice(k))

\* A caller that may repeat keys.
AddAny ==
  \E k \in DupKeys :
    /\ length < DupMaxAdds
    /\ add(NewDevice(k))

(***************************************************************************)
(* MessageNotification and MessageChecker                                  *)
(***************************************************************************)
MessageNotification(device, no_messages) ==
  [no_messages |-> no_messages, device |-> device]

\* Positions are 1-based in the source as well: heap[pos - 1] there.
swap(h, pos1, pos2) == [h EXCEPT ![pos1] = h[pos2], ![pos2] = h[pos1]]

has_more_messages(h, pos1, pos2) == h[pos1].no_messages >= h[pos2].no_messages

RECURSIVE add_sift(_, _)
add_sift(h, i) ==
  IF i \div 2 > 0 /\ has_more_messages(h, i, i \div 2)
  THEN add_sift(swap(h, i, i \div 2), i \div 2)
  ELSE h

\* Vec::swap_remove(0): the last element takes the place of the first.
swap_remove_first(h) ==
  IF Len(h) = 1 THEN <<>> ELSE <<h[Len(h)]>> \o SubSeq(h, 2, Len(h) - 1)

RECURSIVE pop_sift(_, _, _)
pop_sift(h, len_, i) ==
  IF ~(i * 2 < len_) THEN h
  ELSE LET children == <<i * 2, i * 2 + 1>>
       IN IF has_more_messages(h, children[1], children[2])
          THEN IF has_more_messages(h, children[1], i)
               THEN pop_sift(swap(h, i, children[1]), len_, children[1])
               ELSE h
          ELSE IF has_more_messages(h, children[2], i)
               THEN pop_sift(swap(h, i, children[2]), len_, children[2])
               ELSE h

MessageChecker_new_empty ==
  /\ heap_length = 0
  /\ heap = <<>>

MessageChecker_add(notification) ==
  LET pushed == Append(heap, notification)
  IN /\ heap_length' = Len(pushed)
     /\ heap' = IF Len(pushed) > 1 THEN add_sift(pushed, Len(pushed)) ELSE pushed
     /\ heap_op' = "add"
     /\ UNCHANGED pop_result

MessageChecker_pop ==
  /\ heap_op' = "pop"
  /\ IF heap_length > 0
     THEN LET elem == heap[1]
              rest == swap_remove_first(heap)
          IN /\ heap_length' = Len(rest)
             /\ heap' = pop_sift(rest, Len(rest), 1)
             /\ pop_result' = Some(elem)
     ELSE /\ pop_result' = None
          /\ UNCHANGED <<heap, heap_length>>

InitHeap ==
  /\ MessageChecker_new_empty
  /\ pop_result = None
  /\ heap_op = "new_empty"

HeapAdd ==
  \E id \in 1..MaxDeviceId, no_messages \in 1..MaxMessages :
    /\ heap_length < MaxHeap
    /\ MessageChecker_add(MessageNotification(IoTDevice(id, id), no_messages))

HeapPop == MessageChecker_pop

(***************************************************************************)
(* InternetOfThings.  A node index is 1-based here, 0-based in the source. *)
(* Edge weights stay far below the width of u32, so n + e.weight never     *)
(* wraps within the bounds.                                                *)
(***************************************************************************)
\* TentativeWeight and its Ord.
Infinite == <<>>
Number(n) == <<n>>
tw_less(self, other) ==
  IF other = Infinite THEN self # Infinite
  ELSE IF self = Infinite THEN FALSE
  ELSE self[1] < other[1]

Edge(weight, node) == [weight |-> weight, node |-> node]

\* min_index: the index of a node, which the caller uses as a position of open.
RECURSIVE min_index_scan(_, _, _, _)
min_index_scan(weights, open, i, min_weight) ==
  IF i > Len(open) THEN min_weight[2]
  ELSE IF open[i] <= Len(weights) /\ tw_less(weights[open[i]], min_weight[1])
       THEN min_index_scan(weights, open, i + 1, <<weights[open[i]], open[i]>>)
       ELSE min_index_scan(weights, open, i + 1, min_weight)

min_index(weights, open) == min_index_scan(weights, open, 1, <<weights[1], 1>>)

RECURSIVE position(_, _, _)
position(ns, node, i) ==
  IF i > Len(ns) THEN None
  ELSE IF ns[i] = node THEN Some(i) ELSE position(ns, node, i + 1)

get_node_index(ns, node) == position(ns, node, 1)

\* filter_map of set_edges: the edges whose target is a node of the graph.
RECURSIVE filter_edges(_, _)
filter_edges(ns, edges) ==
  IF edges = <<>> THEN <<>>
  ELSE LET e == Head(edges)
           to == get_node_index(ns, e[2])
       IN (IF is_some(to) THEN <<Edge(e[1], unwrap(to))>> ELSE <<>>)
          \o filter_edges(ns, Tail(edges))

\* The for loop over the edges of u.
RECURSIVE relax(_, _, _, _, _)
relax(edges, u, dist, distance, parent) ==
  IF edges = <<>> THEN [distance |-> distance, parent |-> parent]
  ELSE LET e == Head(edges)
           new_distance == IF dist # Infinite THEN Number(dist[1] + e.weight)
                           ELSE Infinite
           old_distance == distance[e.node]
       IN IF tw_less(new_distance, old_distance)
          THEN relax(Tail(edges), u, dist,
                     [distance EXCEPT ![e.node] = new_distance],
                     [parent EXCEPT ![e.node] = Some(u)])
          ELSE relax(Tail(edges), u, dist, distance, parent)

\* The while loop over open.
RECURSIVE search(_, _, _, _, _)
search(adj, dest, distance, open, parent) ==
  IF open = <<>>
  THEN [panic |-> FALSE, found |-> FALSE, distance |-> distance, parent |-> parent]
  ELSE LET at == min_index(distance, open)
       IN IF at > Len(open)
          THEN [panic |-> TRUE, found |-> FALSE, distance |-> distance,
                parent |-> parent]
          ELSE LET u == open[at]
                   rest == vec_remove(open, at - 1)
               IN IF u = dest
                  THEN [panic |-> FALSE, found |-> TRUE, distance |-> distance,
                        parent |-> parent]
                  ELSE LET r == relax(adj[u], u, distance[u], distance, parent)
                       IN search(adj, dest, r.distance, rest, r.parent)

\* The loop that follows parent from dest back to src; it has no bound in the
\* source, fuel runs out when the parents form a cycle.
RECURSIVE back(_, _, _, _, _, _)
back(ns, parent, src, p, path, fuel) ==
  IF p = src THEN [outcome |-> "done", path |-> path]
  ELSE IF fuel = 0 THEN [outcome |-> "hang", path |-> path]
  ELSE IF is_none(parent[p]) THEN [outcome |-> "panic", path |-> path]
  ELSE back(ns, parent, src, unwrap(parent[p]), Append(path, ns[p]), fuel - 1)

Reverse(q) == [i \in 1..Len(q) |-> q[Len(q) + 1 - i]]

\* shortest_path reads the graph and changes nothing: an operator on the
\* fields.  outcome: "none" and "some" are the Option returned, "panic" a panic,
\* "hang" a loop that does not end.
SpNone == [outcome |-> "none", cost |-> 0, path |-> <<>>]
SpPanic == [outcome |-> "panic", cost |-> 0, path |-> <<>>]
SpHang == [outcome |-> "hang", cost |-> 0, path |-> <<>>]

shortest_path(ns, adj, from, to) ==
  LET src == get_node_index(ns, from)
      dest == get_node_index(ns, to)
  IN IF is_some(src) /\ is_some(dest)
     THEN LET s == unwrap(src)
              d == unwrap(dest)
              distance == [[i \in 1..Len(ns) |-> Infinite] EXCEPT ![s] = Number(0)]
              open == [i \in 1..Len(ns) |-> i]
              parent == [i \in 1..Len(ns) |-> None]
              r == search(adj, d, distance, open, parent)
          IN IF r.panic THEN SpPanic
             ELSE IF ~r.found THEN SpNone
             ELSE IF is_none(r.parent[d]) THEN SpPanic
             ELSE LET b == back(ns, r.parent, s, unwrap(r.parent[d]), <<ns[d]>>,
                                Len(ns))
                  IN IF b.outcome = "panic" THEN SpPanic
                     ELSE IF b.outcome = "hang" THEN SpHang
                     ELSE [outcome |-> "some",
                           cost |-> IF r.distance[d] # Infinite THEN r.distance[d][1]
                                    ELSE 0,
                           path |-> Reverse(Append(b.path, ns[s]))]
     ELSE SpNone

edges(adj) ==
  LET RECURSIVE sum(_)
      sum(i) == IF i > Len(adj) THEN 0 ELSE Len(adj[i]) + sum(i + 1)
  IN sum(1)

InternetOfThings_new ==
  /\ adjacency_list = <<>>
  /\ nodes = <<>>

set_nodes(ns) ==
  /\ nodes' = ns
  /\ adjacency_list' = [i \in 1..Len(ns) |-> <<>>]

set_edges(from, es) ==
  LET kept == filter_edges(nodes, es)
      i == get_node_index(nodes, from)
  IN IF is_some(i)
     THEN /\ adjacency_list' = [adjacency_list EXCEPT ![unwrap(i)] = kept]
          /\ UNCHANGED nodes
     ELSE /\ nodes' = Append(nodes, from)
          /\ adjacency_list' = Append(adjacency_list, kept)

InitGraph == InternetOfThings_new

NodeKeys == 1..MaxNodes
Weights == 0..MaxWeight

\* The edge lists a caller passes: up to two (weight, key) edges, to two
\* different keys.
EdgeLists ==
  {<<>>} \cup {<<e>> : e \in Weights \X NodeKeys}
         \cup {p \in (Weights \X NodeKeys) \X (Weights \X NodeKeys) :
                 p[1][2] # p[2][2]}

GraphSetNodes ==
  \E n \in 1..MaxNodes : set_nodes([i \in 1..n |-> i])

GraphSetEdges ==
  \E from \in NodeKeys, es \in EdgeLists :
    /\ set_edges(from, es)
    /\ edges(adjacency_list') <= MaxEdges

(***************************************************************************)
(* BestDeviceRegistry (trie.rs).  A path is a sequence of chars.  A         *)
(* HashMap<char, Link> is the set of its nodes: every node carries its key, *)
(* and the map holds at most one node per key.                              *)
(***************************************************************************)
Chars == {"a", "b"}

PathsUpTo(n) == UNION {[1..m -> Chars] : m \in 0..n}

\* The paths handed to add, and the paths looked up: the latter reach one
\* char beyond the longest path added.
Paths == PathsUpTo(MaxPathLen)
QueryPaths == PathsUpTo(MaxPathLen + 1)

trie_IoTDevice(id, address, path) ==
  [numerical_id |-> id, address |-> address, path |-> path]

trie_Node_new(key, device) == [key |-> key, next |-> {}, value |-> device]

\* HashMap::get
map_get(map, c) ==
  IF \E n \in map : n.key = c
    THEN Some(CHOOSE n \in map : n.key = c)
    ELSE None

\* HashMap::entry(c).or_insert(node): the node under c, put there if absent.
or_insert(map, c, node) ==
  IF is_some(map_get(map, c)) THEN unwrap(map_get(map, c)) ELSE node

\* The map with the node under n.key replaced by n.
map_put(map, n) == {m \in map : m.key # n.key} \cup {n}

\* The descent of add: the map after the path went in below it, the device
\* stored at the node of the last char.
RECURSIVE trie_descend(_, _, _)
trie_descend(map, path, device) ==
  LET c == Head(path)
      n == or_insert(map, c, trie_Node_new(c, None))
  IN IF Len(path) = 1
       THEN map_put(map, [n EXCEPT !.value = Some(device)])
       ELSE map_put(map, [n EXCEPT !.next = trie_descend(n.next, Tail(path), device)])

trie_add(device) ==
  /\ IF Len(device.path) > 0
       THEN /\ trie_length' = trie_length + 1
            /\ trie_root' = trie_descend(trie_root, device.path, device)
       ELSE UNCHANGED <<trie_root, trie_length>>
  /\ trie_added' = Append(trie_added, device)

\* The loop of find: on a char with no node it breaks, and the value of the
\* node reached so far is returned.
RECURSIVE trie_find_loop(_, _)
trie_find_loop(n, path) ==
  IF Len(path) = 0
    THEN n.value
    ELSE IF is_some(map_get(n.next, Head(path)))
           THEN trie_find_loop(unwrap(map_get(n.next, Head(path))), Tail(path))
           ELSE n.value

trie_find(rt, path) ==
  IF Len(path) > 0
    THEN IF is_some(map_get(rt, Head(path)))
           THEN trie_find_loop(unwrap(map_get(rt, Head(path))), Tail(path))
           ELSE None
    ELSE None

BestDeviceRegistry_new_empty ==
  /\ trie_length = 0
  /\ trie_root = {}

InitTrie ==
  /\ BestDeviceRegistry_new_empty
  /\ trie_added = <<>>

\* add with a device of any path; the id counts the adds, as in the tests.
TrieAdd ==
  \E path \in Paths :
    /\ Len(trie_added) < MaxTrieAdds
    /\ trie_add(trie_IoTDevice(Len(trie_added), Len(trie_added), path))

(***************************************************************************)
(* TransactionLog (singly_linked_list.rs).  An Rc<RefCell<Node>> is a cell  *)
(* with an identity; a SingleLink is None or Some of a cell's id.  The Rc   *)
(* strong count of a cell is the number of links that hold its id.          *)
(***************************************************************************)
Values == {"x", "y"}

log_Node_new(id, value) == [id |-> id, value |-> value, next |-> None]

cell(cells, id) == CHOOSE c \in cells : c.id = id

\* node.borrow_mut().next = link
set_next(cells, id, link) ==
  {IF c.id = id THEN [c EXCEPT !.next = link] ELSE c : c \in cells}

\* The links that hold id, the local variable of the caller not counted.
strong_count(cells, hd, tl, id) ==
  Cardinality({c \in cells : c.next = Some(id)})
    + (IF hd = Some(id) THEN 1 ELSE 0)
    + (IF tl = Some(id) THEN 1 ELSE 0)

\* A variant of append that links the new node in front of the head.
TransactionLog_append_at_head(value) ==
  LET id == Len(log_appended) + 1
      new_node == [log_Node_new(id, value) EXCEPT !.next = log_head]
  IN /\ log_cells' = log_cells \cup {new_node}
     /\ log_head' = Some(id)
     /\ log_tail' = IF is_some(log_tail) THEN log_tail ELSE Some(id)
     /\ log_length' = log_length + 1
     /\ log_appended' = Append(log_appended, value)
     /\ log_op' = "append"
     /\ UNCHANGED <<log_popped, log_result, log_panicked>>

TransactionLog_append(value) ==
  LET id == Len(log_appended) + 1
      new_node == log_Node_new(id, value)
  IN /\ IF is_some(log_tail)
          THEN /\ log_cells' = set_next(log_cells, unwrap(log_tail), Some(id))
                                 \cup {new_node}
               /\ UNCHANGED log_head
          ELSE /\ log_cells' = log_cells \cup {new_node}
               /\ log_head' = Some(id)
     /\ log_length' = log_length + 1
     /\ log_tail' = Some(id)
     /\ log_appended' = Append(log_appended, value)
     /\ log_op' = "append"
     /\ UNCHANGED <<log_popped, log_result, log_panicked>>

\* pop: head.take(), then the closure of map on the node taken.  try_unwrap
\* gives the node only if no other link holds it; expect panics otherwise.
TransactionLog_pop ==
  /\ log_op' = "pop"
  /\ UNCHANGED log_appended
  /\ IF is_some(log_head)
       THEN LET id == unwrap(log_head)
                next == cell(log_cells, id).next
                cells == set_next(log_cells, id, None)
                hd == next
                tl == IF is_some(next) THEN log_tail ELSE None
            IN /\ log_head' = hd
               /\ log_tail' = tl
               /\ log_length' = log_length - 1
               /\ IF strong_count(cells, hd, tl, id) = 0
                    THEN /\ log_cells' = {c \in cells : c.id # id}
                         /\ log_result' = Some(cell(cells, id).value)
                         /\ log_popped' = Append(log_popped, cell(cells, id).value)
                         /\ UNCHANGED log_panicked
                    ELSE /\ log_cells' = cells
                         /\ log_panicked' = TRUE
                         /\ UNCHANGED <<log_result, log_popped>>
       ELSE /\ log_result' = None
            /\ UNCHANGED <<log_cells, log_head, log_tail, log_length,
                           log_popped, log_panicked>>

TransactionLog_new_empty ==
  /\ log_head = None
  /\ log_tail = None
  /\ log_length = 0

InitLog ==
  /\ TransactionLog_new_empty
  /\ log_cells = {}
  /\ log_appended = <<>>
  /\ log_popped = <<>>
  /\ log_result = None
  /\ log_op = "new_empty"
  /\ log_panicked = FALSE

LogAppend ==
  \E value \in Values :
    /\ ~log_panicked
    /\ Len(log_appended) < MaxAppends
    /\ TransactionLog_append(value)

LogPop ==
  /\ ~log_panicked
  /\ TransactionLog_pop

(***************************************************************************)
(* DeviceRegistry (binary_search_tree.rs).  A Tree is None or Some of a     *)
(* node [dev, left, right].                                                 *)
(***************************************************************************)
BstKeys == 0..(MaxBstKey - 1)

bst_new_device(id) == [numerical_id |-> id, address |-> id]

bst_Node_new(dev) == Some([dev |-> dev, left |-> None, right |-> None])

\* A variant of add_rec that sends the larger keys to the right.
RECURSIVE add_rec_right(_, _)
add_rec_right(node, device) ==
  IF is_some(node)
    THEN LET n == unwrap(node)
         IN IF n.dev.numerical_id <= device.numerical_id
              THEN Some([n EXCEPT !.right = add_rec_right(n.right, device)])
              ELSE Some([n EXCEPT !.left = add_rec_right(n.left, device)])
    ELSE bst_Node_new(device)

RECURSIVE add_rec(_, _)
add_rec(node, device) ==
  IF is_some(node)
    THEN LET n == unwrap(node)
         IN IF n.dev.numerical_id <= device.numerical_id
              THEN Some([n EXCEPT !.left = add_rec(n.left, device)])
              ELSE Some([n EXCEPT !.right = add_rec(n.right, device)])
    ELSE bst_Node_new(device)

bst_add(device) ==
  /\ bst_length' = bst_length + 1
  /\ bst_root' = add_rec(bst_root, device)
  /\ bst_added' = bst_added \cup {device}

RECURSIVE bst_find_r(_, _)
bst_find_r(node, numerical_id) ==
  IF is_some(node)
    THEN LET n == unwrap(node)
         IN IF n.dev.numerical_id = numerical_id
              THEN Some(n.dev)
              ELSE IF n.dev.numerical_id < numerical_id
                     THEN bst_find_r(n.left, numerical_id)
                     ELSE bst_find_r(n.right, numerical_id)
    ELSE None

bst_find(rt, numerical_id) == bst_find_r(rt, numerical_id)

\* The devices the callback receives, in the order of the calls.
RECURSIVE bst_walk_in_order(_)
bst_walk_in_order(node) ==
  IF is_some(node)
    THEN LET n == unwrap(node)
         IN bst_walk_in_order(n.left) \o <<n.dev>> \o bst_walk_in_order(n.right)
    ELSE <<>>

bst_walk(rt) == bst_walk_in_order(rt)

DeviceRegistry_new_empty ==
  /\ bst_root = None
  /\ bst_length = 0

InitBst ==
  /\ DeviceRegistry_new_empty
  /\ bst_added = {}

\* add with a key not yet added.
BstAddFresh ==
  \E k \in BstKeys :
    /\ \A d \in bst_added : d.numerical_id # k
    /\ bst_add(bst_new_device(k))

(***************************************************************************)
(* Node::split called on a node of any size.  The slots of the node have    *)
(* the keys 2 * i of a set of slot numbers i, in ascending order; in a      *)
(* Regular node the child of the slot with key k is a leaf with the key     *)
(* k + 1 and the left child a leaf with the key 1, so that every child is   *)
(* told from every other.                                                   *)
(***************************************************************************)
SlotNumbers == 1..MaxSlots

RECURSIVE AscendingSeq(_)
AscendingSeq(S) ==
  IF S = {}
    THEN <<>>
    ELSE LET m == CHOOSE x \in S : \A y \in S : x <= y
         IN <<m>> \o AscendingSeq(S \ {m})

LeafWith(k) ==
  [new_leaf EXCEPT !.devices = <<Some(IoTDevice(k, k))>>, !.children = <<None>>]

SplitInput(node_type, S) ==
  LET ks == AscendingSeq(S)
  IN [left_child |-> IF node_type = "Regular" THEN Some(LeafWith(1)) ELSE None,
      devices |-> [i \in DOMAIN ks |-> Some(IoTDevice(2 * ks[i], 2 * ks[i]))],
      children |-> [i \in DOMAIN ks |->
                      IF node_type = "Regular" THEN Some(LeafWith(2 * ks[i] + 1))
                      ELSE None],
      node_type |-> node_type]

SplitInputs ==
  {SplitInput(t, S) : t \in {"Leaf", "Regular"}, S \in (SUBSET SlotNumbers) \ {{}}}

InitSplit ==
  /\ split_node = new_leaf
  /\ split_returned = None

\* The node that split is called on is any of the inputs.
InitSplitInputs ==
  /\ split_node \in SplitInputs
  /\ split_returned = None

CallSplit ==
  /\ is_none(split_returned)
  /\ split_returned' = Some(split(split_node))
  /\ UNCHANGED split_node

(***************************************************************************)
(* The read-only operations of DeviceDatabase, called between adds.  find,  *)
(* walk and is_a_valid_btree take &self and assign to no field.  The        *)
(* shadow database gets every add and no read.                              *)
(***************************************************************************)
Reads == {"find", "walk", "is_a_valid_btree"}

InitRead ==
  /\ query_op = "new_empty"
  /\ query_key = 0
  /\ query_result = <<>>
  /\ reads_seen = FALSE
  /\ shadow_root = None
  /\ shadow_length = 0

\* add on the database and on its shadow.
ReadAdd ==
  \E k \in DupKeys :
    /\ length < ReadMaxAdds
    /\ add(NewDevice(k))
    /\ \E r \in {add_r(IF is_some(shadow_root) THEN unwrap(shadow_root) ELSE new_leaf,
                       NewDevice(k), TRUE, order)} :
         /\ shadow_length' = shadow_length + r.inc
         /\ shadow_root' = IF r.panic THEN None ELSE Some(r.node)
    /\ query_op' = "add"
    /\ query_result' = <<>>
    /\ reads_seen' = (reads_seen \/ query_op \in Reads)
    /\ UNCHANGED query_key

\* A slip: walk takes the root out of the database, as add does, and does
\* not put it back.
DbWalk_taking_root ==
  /\ ~panicked
  /\ query_op' = "walk"
  /\ query_result' = walk(root)
  /\ root' = None
  /\ UNCHANGED <<order, length, added, splits, panicked>>
  /\ UNCHANGED <<query_key, reads_seen, shadow_root, shadow_length>>

DbFind ==
  \E id \in 0..DupMaxKey :
    /\ ~panicked
    /\ query_op' = "find"
    /\ query_key' = id
    /\ query_result' = find(root, id)
    /\ UNCHANGED bt_vars
    /\ UNCHANGED <<reads_seen, shadow_root, shadow_length>>

DbWalk ==
  /\ ~panicked
  /\ query_op' = "walk"
  /\ query_result' = walk(root)
  /\ UNCHANGED bt_vars
  /\ UNCHANGED <<query_key, reads_seen, shadow_root, shadow_length>>

DbIsValid ==
  /\ ~panicked
  /\ query_op' = "is_a_valid_btree"
  /\ query_result' = <<is_a_valid_btree(root, order)>>
  /\ UNCHANGED bt_vars
  /\ UNCHANGED <<query_key, reads_seen, shadow_root, shadow_length>>

(***************************************************************************)
(* The specifications.  Each container is an object of its own: a          *)
(* specification runs the operations of one and leaves the others as       *)
(* constructed.                                                            *)
(***************************************************************************)
\* The containers other than the B-tree, as constructed.
InitOthers ==
  /\ InitHeap
  /\ InitGraph
  /\ InitTrie
  /\ InitLog
  /\ InitBst
  /\ InitSplit
  /\ InitRead

Init ==
  /\ InitBTree
  /\ InitOthers

Next ==
  /\ AddFresh
  /\ UNCHANGED but_bt

Spec == Init /\ [][Next]_vars

NextDup ==
  /\ AddAny
  /\ UNCHANGED but_bt

SpecDup == Init /\ [][NextDup]_vars

\* Every container as constructed, the B-tree with order 3.
InitContainers ==
  /\ new_empty(3)
  /\ added = {}
  /\ splits = 0
  /\ panicked = FALSE
  /\ InitOthers

NextHeap ==
  \/ HeapAdd /\ UNCHANGED but_heap
  \/ HeapPop /\ UNCHANGED but_heap

SpecHeap == InitContainers /\ [][NextHeap]_vars

NextGraph ==
  \/ GraphSetNodes /\ UNCHANGED but_graph
  \/ GraphSetEdges /\ UNCHANGED but_graph

SpecGraph == InitContainers /\ [][NextGraph]_vars

NextTrie ==
  /\ TrieAdd
  /\ UNCHANGED but_trie

SpecTrie == InitContainers /\ [][NextTrie]_vars

NextLog ==
  \/ LogAppend /\ UNCHANGED but_log
  \/ LogPop /\ UNCHANGED but_log

SpecLog == InitContainers /\ [][NextLog]_vars

NextBst ==
  /\ BstAddFresh
  /\ UNCHANGED but_bst

SpecBst == InitContainers /\ [][NextBst]_vars

NextRead ==
  \/ ReadAdd /\ UNCHANGED but_read
  \/ DbFind /\ UNCHANGED but_read
  \/ DbWalk /\ UNCHANGED but_read
  \/ DbIsValid /\ UNCHANGED but_read

SpecRead == Init /\ [][NextRead]_vars

\* Every container as constructed, beside a node for split to be called on.
InitSplitSpec ==
  /\ new_empty(3)
  /\ added = {}
  /\ splits = 0
  /\ panicked = FALSE
  /\ InitHeap
  /\ InitGraph
  /\ InitTrie
  /\ InitLog
  /\ InitBst
  /\ InitSplitInputs
  /\ InitRead

NextSplit ==
  /\ CallSplit
  /\ UNCHANGED but_split

SpecSplit == InitSplitSpec /\ [][NextSplit]_vars

(***************************************************************************)
(* Notions the properties are stated with.                                 *)
(***************************************************************************)
Range(f) == {f[i] : i \in DOMAIN f}

\* The children a node holds.
Kids(node) == {unwrap(c) : c \in {o \in {node.left_child} \cup Range(node.children) : is_some(o)}}

\* The nodes of a tree, each with its depth.
RECURSIVE NodesAt(_, _)
NodesAt(node, level) ==
  {<<node, level>>} \cup UNION {NodesAt(k, level + 1) : k \in Kids(node)}

Nodes == IF is_some(root) THEN NodesAt(unwrap(root), 0) ELSE {}

Height == IF Nodes = {} THEN 0 ELSE 1 + CHOOSE h \in {p[2] : p \in Nodes} :
                                         \A p \in Nodes : p[2] <= h

AddedWithKey(k) == {d \in added : d.numerical_id = k}

WalkKeys(rt) == [i \in DOMAIN walk(rt) |-> walk(rt)[i].numerical_id]

StrictlyAscending(ks) == \A i \in 1..(Len(ks) - 1) : ks[i] < ks[i + 1]

Times(w, d) == Cardinality({i \in DOMAIN w : w[i] = d})

\* C1: with pairwise distinct keys, after every add is_a_valid_btree() is true:
\* all leaves are at one depth, every node's length is at most the order, a
\* Regular node below the root has length at least order / 2, and a Regular
\* root has length at least 2.
C1_ValidAfterEveryAdd ==
  added # {} =>
    /\ is_a_valid_btree(root, order)
    /\ \A p, q \in Nodes :
         p[1].node_type = "Leaf" /\ q[1].node_type = "Leaf" => p[2] = q[2]
    /\ \A p \in Nodes : len(p[1]) <= order
    /\ \A p \in Nodes :
         p[1].node_type = "Regular" /\ p[2] > 0 => len(p[1]) >= order \div 2
    /\ \A p \in Nodes : p[1].node_type = "Regular" /\ p[2] = 0 => len(p[1]) >= 2

\* A tree of three levels: a Regular node below the root.
C1_Witness ==
  /\ \E p \in Nodes : p[1].node_type = "Regular" /\ p[2] > 0
  /\ is_a_valid_btree(root, order)

\* C2: with pairwise distinct keys, find(k) is the device that was added under
\* k for every added key k, and None for every key that was never added.
C2_FindAdded ==
  \A k \in 0..MaxKey :
    find(root, k) = IF KeyAdded(k) THEN Some(CHOOSE d \in added : d.numerical_id = k)
                    ELSE None

\* A tree of at least two levels, with keys found below the root and a key
\* that was never added.
C2_Witness ==
  /\ Height >= 2
  /\ \E k \in Keys : KeyAdded(k) /\ is_none(get_device(unwrap(root), k))
                     /\ is_some(find(root, k))
  /\ \E k \in Keys : ~KeyAdded(k) /\ is_none(find(root, k))

C4_LengthCounts ==
  /\ length = 0
  /\ [][length' = length + 1]_vars
  /\ [](length = Cardinality(added))

\* Adds that went through a split of the root.
C4_Witness == length >= 4 /\ Height >= 2

\* C5: on a store just made by new_empty, find is None for every key and
\* is_a_valid_btree() is false.
C5_EmptyStore ==
  added = {} =>
    /\ \A k \in 0..MaxKey : is_none(find(root, k))
    /\ ~is_a_valid_btree(root, order)

\* The store before the first add.
C5_Witness == added = {} /\ is_none(root) /\ length = 0

\* C6: after order + 1 pairwise distinct keys there was exactly one split, and
\* the root is a Regular node of length 2 whose left child and slot child are
\* Leaf nodes.
C6_OneSplit ==
  Cardinality(added) = order + 1 =>
    /\ splits = 1
    /\ is_some(root)
    /\ unwrap(root).node_type = "Regular"
    /\ len(unwrap(root)) = 2
    /\ is_some(unwrap(root).left_child)
    /\ unwrap(unwrap(root).left_child).node_type = "Leaf"
    /\ is_some(unwrap(root).children[1])
    /\ unwrap(unwrap(root).children[1]).node_type = "Leaf"

\* order + 1 keys are in the store.
C6_Witness == Cardinality(added) = order + 1 /\ length = order + 1 /\ splits = 1

\* C7: no add panics, whatever the keys, and every add leaves a root.
C7_AddNeverPanics ==
  /\ ~panicked
  /\ added # {} => is_some(root)

\* A tree of three levels that holds a key more than once.
C7_Witness ==
  /\ Height >= 3
  /\ \E k \in DupKeys : Cardinality(AddedWithKey(k)) >= 2
  /\ ~panicked

\* C8: an add under a key that is already stored is accepted: every add,
\* repeated key or not, increases length by 1, and once a key was added more
\* than once the tree holds one slot for each of its devices and walk emits
\* each of them once, the earlier ones included.
C8_DuplicateAccepted ==
  /\ [][length' = length + 1 /\ Cardinality(added') = Cardinality(added) + 1]_vars
  /\ [](\A k \in DupKeys :
          Cardinality(AddedWithKey(k)) >= 2 =>
            /\ length = Cardinality(added)
            /\ Times(WalkKeys(root), k) = Cardinality(AddedWithKey(k))
            /\ \A e \in AddedWithKey(k) : Times(walk(root), e) = 1)

\* Two devices with one key are stored and walked.
C8_Witness ==
  \E k \in DupKeys :
    /\ Cardinality(AddedWithKey(k)) >= 2
    /\ Times(WalkKeys(root), k) = Cardinality(AddedWithKey(k))

\* C9: every pop returns a stored notification whose no_messages is the
\* maximum of those stored, so repeated pops come in non-increasing order, and
\* pop returns None on an empty heap.
C9_PopReturnsMax ==
  [][heap_op' = "pop" =>
       IF heap = <<>>
       THEN pop_result' = None
       ELSE /\ is_some(pop_result')
            /\ unwrap(pop_result') \in Range(heap)
            /\ \A i \in DOMAIN heap :
                 unwrap(pop_result').no_messages >= heap[i].no_messages]_vars

\* The weights of the edges from index i to index j.
EdgeWeights(adj, i, j) == {e.weight : e \in {f \in Range(adj[i]) : f.node = j}}

\* The total weights of the simple directed paths from index u to index d
\* that avoid the indices of visited.
RECURSIVE PathCosts(_, _, _, _)
PathCosts(adj, u, d, visited) ==
  IF u = d THEN {0}
  ELSE UNION {{e.weight + c : c \in PathCosts(adj, e.node, d, visited \cup {e.node})} :
              e \in {f \in Range(adj[u]) : f.node \notin visited}}

Least(S) == CHOOSE x \in S : \A y \in S : x <= y

\* The total weights a walk along the indices of path can have.
RECURSIVE AlongCosts(_, _, _)
AlongCosts(adj, path, i) ==
  IF i >= Len(path) THEN {0}
  ELSE {w + c : w \in EdgeWeights(adj, path[i], path[i + 1]),
                c \in AlongCosts(adj, path, i + 1)}

Connected(from, to) ==
  /\ from # to
  /\ is_some(get_node_index(nodes, from))
  /\ is_some(get_node_index(nodes, to))
  /\ PathCosts(adjacency_list, unwrap(get_node_index(nodes, from)),
               unwrap(get_node_index(nodes, to)),
               {unwrap(get_node_index(nodes, from))}) # {}

\* C10: for two different nodes joined by a directed path, shortest_path
\* returns Some((cost, path)): path leads from from to to along edges, cost is
\* the weight of path, and no directed path from from to to weighs less.
C10_ShortestPath ==
  \A from \in NodeKeys, to \in NodeKeys :
    Connected(from, to) =>
      LET r == shortest_path(nodes, adjacency_list, from, to)
          s == unwrap(get_node_index(nodes, from))
          d == unwrap(get_node_index(nodes, to))
          ix == [i \in DOMAIN r.path |-> unwrap(get_node_index(nodes, r.path[i]))]
      IN /\ r.outcome = "some"
         /\ Len(r.path) >= 2
         /\ r.path[1] = from
         /\ r.path[Len(r.path)] = to
         /\ r.cost \in AlongCosts(adjacency_list, ix, 1)
         /\ r.cost = Least(PathCosts(adjacency_list, s, d, {s}))

(***************************************************************************)
(* C11.  Trie: find(path) is None for every path that was never the path   *)
(* of an added device, a path that extends an added path included, and is  *)
(* the device most recently added with that path otherwise.  The empty     *)
(* path names no node: add stores nothing for it, and it is read here as a *)
(* path that was never added.                                              *)
(***************************************************************************)
AddedWithPath(p) == {i \in DOMAIN trie_added : trie_added[i].path = p}

LastAddedWithPath(p) ==
  trie_added[CHOOSE i \in AddedWithPath(p) : \A j \in AddedWithPath(p) : j <= i]

C11_FindExactPath ==
  \A p \in QueryPaths :
    trie_find(trie_root, p) =
      IF Len(p) = 0 \/ AddedWithPath(p) = {}
        THEN None
        ELSE Some(LastAddedWithPath(p))

(***************************************************************************)
(* C12.  TransactionLog: across any interleaving of append and pop, the    *)
(* values pop returned are, in order, the first values appended (FIFO) and *)
(* the log holds the rest in order; length is the number of appends minus  *)
(* the number of pops that returned a value; a pop on the empty log        *)
(* returns None and leaves the length as it was; no pop panics.            *)
(***************************************************************************)
\* The values of the cells from a link on.
RECURSIVE LogFrom(_, _)
LogFrom(cells, link) ==
  IF is_none(link)
    THEN <<>>
    ELSE <<cell(cells, unwrap(link)).value>>
           \o LogFrom(cells, cell(cells, unwrap(link)).next)

C12_Fifo ==
  /\ [](/\ ~log_panicked
        /\ Len(log_popped) <= Len(log_appended)
        /\ log_popped = SubSeq(log_appended, 1, Len(log_popped))
        /\ LogFrom(log_cells, log_head)
             = SubSeq(log_appended, Len(log_popped) + 1, Len(log_appended))
        /\ log_length = Len(log_appended) - Len(log_popped))
  /\ [][log_op' = "pop" =>
          IF log_length = 0
            THEN log_result' = None /\ log_length' = 0
                   /\ log_popped' = log_popped
            ELSE log_result' = Some(log_appended[Len(log_popped) + 1])
                   /\ log_length' = log_length - 1]_vars

\* Of three values appended, two pops returned the first two in the order
\* of their appends, and the third is still in the log.
C12_Witness ==
  /\ log_appended = <<"x", "y", "x">>
  /\ log_popped = <<"x", "y">>
  /\ log_op = "pop"
  /\ log_length = 1

(***************************************************************************)
(* C13.  DeviceRegistry: after records with distinct keys were added in    *)
(* any order, length is their number, walk emits each of them exactly once *)
(* in strictly descending order of key, find(k) returns the record added   *)
(* for every key added and None for a key never added.                     *)
(***************************************************************************)
StrictlyDescending(ks) == \A i \in 1..(Len(ks) - 1) : ks[i] > ks[i + 1]

C13_BstContents ==
  LET w == bst_walk(bst_root)
  IN /\ bst_length = Cardinality(bst_added)
     /\ Len(w) = Cardinality(bst_added)
     /\ Range(w) = bst_added
     /\ StrictlyDescending([i \in DOMAIN w |-> w[i].numerical_id])
     /\ \A d \in bst_added : bst_find(bst_root, d.numerical_id) = Some(d)
     /\ \A k \in 0..MaxBstKey :
          (\A d \in bst_added : d.numerical_id # k) => bst_find(bst_root, k) = None

\* Four records are stored, the root has a subtree on either side and one
\* of them is two nodes deep.
C13_Witness ==
  /\ Cardinality(bst_added) = 4
  /\ is_some(bst_root)
  /\ is_some(unwrap(bst_root).left)
  /\ is_some(unwrap(bst_root).right)
  /\ \/ is_some(unwrap(unwrap(bst_root).left).right)
     \/ is_some(unwrap(unwrap(bst_root).right).left)

(***************************************************************************)
(* C14.  Search-tree order, distinct keys: in every node the slots are in  *)
(* strictly ascending order of key; in every Regular node the keys below   *)
(* the left child are less than the first slot's key, and the keys below   *)
(* the child of slot i are greater than the key of slot i and less than    *)
(* the key of slot i + 1 (no upper limit for the last slot).               *)
(***************************************************************************)
SlotKey(node, i) == unwrap(node.devices[i]).numerical_id

\* The keys stored in the subtree of a node.
KeysBelow(node) ==
  UNION {{unwrap(d).numerical_id : d \in {o \in Range(p[1].devices) : is_some(o)}} :
           p \in NodesAt(node, 0)}

Ordered(node) ==
  /\ \A i \in DOMAIN node.devices : is_some(node.devices[i])
  /\ \A i \in 1..(Len(node.devices) - 1) : SlotKey(node, i) < SlotKey(node, i + 1)
  /\ node.node_type = "Regular" =>
       /\ is_some(node.left_child) /\ Len(node.devices) >= 1 =>
            \A k \in KeysBelow(unwrap(node.left_child)) : k < SlotKey(node, 1)
       /\ \A i \in DOMAIN node.children :
            is_some(node.children[i]) =>
              \A k \in KeysBelow(unwrap(node.children[i])) :
                /\ k > SlotKey(node, i)
                /\ i < Len(node.devices) => k < SlotKey(node, i + 1)

C14_SearchTreeOrder == \A p \in Nodes : Ordered(p[1])

\* A tree of three levels: a Regular node below the root has two slots, so
\* the keys below the child of its first slot are limited on both sides, and
\* the keys below the root's left child span two levels.
C14_Witness ==
  /\ Height >= 3
  /\ \E p \in Nodes :
       p[2] = 1 /\ p[1].node_type = "Regular" /\ Len(p[1].devices) >= 2
  /\ Cardinality(KeysBelow(unwrap(unwrap(root).left_child))) >= 3

(***************************************************************************)
(* C15.  Height: the root is absent until the first add, which makes a     *)
(* Leaf root; an add raises the height by at most one level and never      *)
(* lowers it; the height rises only when the root itself overflowed        *)
(* (length > order) and was split: the new root is Regular, its left child *)
(* is the old root reduced, and its one slot holds the promoted record and *)
(* the sibling.                                                            *)
(***************************************************************************)
RECURSIVE Depth(_)
Depth(node) ==
  LET below == {Depth(k) : k \in Kids(node)}
  IN 1 + (IF below = {} THEN 0 ELSE CHOOSE h \in below : \A g \in below : g <= h)

HeightOf(rt) == IF is_some(rt) THEN Depth(unwrap(rt)) ELSE 0

\* after is the root that a split of the root before leaves.  left is the
\* root before, reduced, and sib the sibling: the two have its node type and
\* hold, with the promoted record, its slots and the one that came in, which
\* are order slots, one more than a node of length order has.
RootSplit(before, after, ord) ==
  /\ after.node_type = "Regular"
  /\ Len(after.devices) = 1 /\ Len(after.children) = 1
  /\ is_some(after.devices[1]) /\ is_some(after.children[1]) /\ is_some(after.left_child)
  /\ LET left == unwrap(after.left_child)
         sib == unwrap(after.children[1])
     IN /\ left.node_type = before.node_type
        /\ sib.node_type = before.node_type
        /\ Len(left.devices) + 1 + Len(sib.devices) = ord
        /\ Range(before.devices) \subseteq
             Range(left.devices) \cup Range(after.devices) \cup Range(sib.devices)

C15_HeightSteps ==
  /\ [](is_none(root) <=> added = {})
  /\ [][\E before \in {root}, after \in {root'}, h0 \in {HeightOf(root)},
           h1 \in {HeightOf(root')} :
          /\ h0 <= h1 /\ h1 <= h0 + 1
          /\ is_none(before) => is_some(after) /\ unwrap(after).node_type = "Leaf"
          /\ is_some(before) /\ h1 > h0 =>
               /\ RootSplit(unwrap(before), unwrap(after), order)
               /\ splits' > splits]_vars

\* The root was split twice: the tree has three levels.
C15_Witness == Height = 3 /\ unwrap(root).node_type = "Regular" /\ splits >= 3

(***************************************************************************)
(* C16.  Node::split on a node of n >= 1 slots with ascending, distinct    *)
(* keys: the promoted record is that of slot n / 2 (0-based); the node     *)
(* keeps the slots 0 .. n/2 - 1 in order and its left child; the sibling   *)
(* has the node's type, holds the slots n/2 + 1 .. n - 1 in ascending      *)
(* order, each with its child, and its left child is the child of the      *)
(* promoted slot; no slot and no child is lost or held twice.              *)
(***************************************************************************)
C16_Split ==
  is_some(split_returned) =>
    LET r == unwrap(split_returned)
        n == Len(split_node.devices)
        m == n \div 2
    IN /\ ~r.panic
       /\ Some(r.dev) = split_node.devices[m + 1]
       /\ r.node.node_type = split_node.node_type
       /\ r.node.left_child = split_node.left_child
       /\ r.node.devices = SubSeq(split_node.devices, 1, m)
       /\ r.node.children = SubSeq(split_node.children, 1, m)
       /\ r.sibling.node_type = split_node.node_type
       /\ r.sibling.left_child = split_node.children[m + 1]
       /\ r.sibling.devices = SubSeq(split_node.devices, m + 2, n)
       /\ r.sibling.children = SubSeq(split_node.children, m + 2, n)
       /\ Len(r.node.devices) + 1 + Len(r.sibling.devices) = n

\* split ran on a Regular node of four slots or more: two slots stay and
\* one or more move to the sibling with their children.
C16_Witness ==
  /\ is_some(split_returned)
  /\ split_node.node_type = "Regular"
  /\ Len(split_node.devices) >= 4
  /\ Len(unwrap(split_returned).sibling.children) >= 1

(***************************************************************************)
(* C17.  Node shape, any keys: after every add every slot of every node    *)
(* holds a record; a Leaf has no left child and no child in any slot; a    *)
(* Regular node has a left child and a child in every slot, so the descent *)
(* of add_r never unwraps an absent child.                                 *)
(***************************************************************************)
Shaped(node) ==
  /\ Len(node.devices) = Len(node.children)
  /\ \A i \in DOMAIN node.devices : is_some(node.devices[i])
  /\ node.node_type = "Leaf" =>
       /\ is_none(node.left_child)
       /\ \A i \in DOMAIN node.children : is_none(node.children[i])
  /\ node.node_type = "Regular" =>
       /\ is_some(node.left_child)
       /\ \A i \in DOMAIN node.children : is_some(node.children[i])

C17_NodeShape ==
  /\ ~panicked
  /\ \A p \in Nodes : p[1].node_type \in {"Leaf", "Regular"} /\ Shaped(p[1])

\* Keys were repeated and the tree has Regular nodes on two levels above
\* its leaves.
C17_Witness ==
  /\ \E k \in DupKeys : Cardinality(AddedWithKey(k)) >= 2
  /\ \E p, q \in Nodes :
       /\ p[1].node_type = "Regular" /\ q[1].node_type = "Regular"
       /\ p[2] < q[2]
  /\ \E p \in Nodes : p[1].node_type = "Leaf" /\ p[2] = 2

(***************************************************************************)
(* C18.  Frame of an add: the nodes an add changes all lie on one path     *)
(* from the root to a leaf, the path that find_closest_index chooses for   *)
(* the key; every subtree off that path is in the tree afterwards as it    *)
(* was; on every level at most one node is new beside the changed one (the *)
(* sibling), and at most one new root comes on top; every record stored    *)
(* before is stored afterwards.                                            *)
(***************************************************************************)
\* The child of a Regular node that the descent for key enters.
Chosen(node, key) ==
  LET index == find_closest_index(node, key)
  IN IF index = 0 THEN node.left_child ELSE node.children[index]

\* The nodes on the path of the descent for key, each with its depth.
RECURSIVE DescentPath(_, _, _)
DescentPath(node, key, level) ==
  {<<node, level>>} \cup
    (IF node.node_type = "Regular" /\ is_some(Chosen(node, key))
       THEN DescentPath(unwrap(Chosen(node, key)), key, level + 1)
       ELSE {})

\* The subtrees that hang off the path.
OffPath(node, key) ==
  UNION {Kids(p[1]) : p \in DescentPath(node, key, 0)}
    \ {p[1] : p \in DescentPath(node, key, 0)}

RecordsIn(ns) ==
  UNION {{unwrap(d) : d \in {o \in Range(p[1].devices) : is_some(o)}} : p \in ns}

\* before and after are the nodes of the tree, with their depths, before
\* and after an add of key; path is the path in the tree before; grew is 1
\* if a new root came on top and 0 if not.
FrameOfAdd(before, after, path, off, grew) ==
  /\ {p[1] : p \in before} \ {p[1] : p \in after} \subseteq {p[1] : p \in path}
  /\ \A t \in off : \E p \in after : p[1] = t
  /\ \A p \in before :
       p \notin path => <<p[1], p[2] + grew>> \in after
  /\ \A level \in {p[2] : p \in after} :
       LET fresh == {p \in after : p[2] = level /\ \A q \in before : q[1] # p[1]}
       IN IF level < grew THEN Cardinality(fresh) <= 1
                          ELSE Cardinality(fresh) <= 2
  /\ \A level \in {p[2] : p \in after} :
       Cardinality({p \in after : p[2] = level})
         <= Cardinality({p \in before : p[2] + grew = level}) + 1
  /\ RecordsIn(before) \subseteq RecordsIn(after)

C18_InsertionFrame ==
  [][\E rt \in {root}, rt1 \in {root'}, d \in added' \ added :
       is_some(rt) /\ is_some(rt1) =>
         \E before \in {NodesAt(unwrap(rt), 0)}, after \in {NodesAt(unwrap(rt1), 0)},
            path \in {DescentPath(unwrap(rt), d.numerical_id, 0)},
            off \in {OffPath(unwrap(rt), d.numerical_id)},
            grew \in {HeightOf(rt1) - HeightOf(rt)} :
           FrameOfAdd(before, after, path, off, grew)]_vars

\* A tree of three levels with subtrees off every path, one of them a
\* Regular node with its leaves.
C18_Witness ==
  /\ Height >= 3
  /\ splits >= 4
  /\ \E k \in Keys : \E t \in OffPath(unwrap(root), k) : t.node_type = "Regular"

NonDecreasing(ks) == \A i \in 1..(Len(ks) - 1) : ks[i] <= ks[i + 1]

C20_DuplicatesKeepKeys ==
  /\ \A k \in DupKeys :
       KeyAdded(k) =>
         /\ is_some(find(root, k))
         /\ unwrap(find(root, k)).numerical_id = k
  /\ NonDecreasing(WalkKeys(root))

====
